---- MODULE Spec2Model ----
(***************************************************************************)
(* Model of the samples package of dimsum-automation: the cache, the       *)
(* Client (New, asyncForSponsors, prefetch, ForSponsor, Close) and the     *)
(* consolidation done by freshForSponsorQuery.                             *)
(***************************************************************************)
EXTENDS Integers, Sequences, FiniteSets, TLC

(***************************************************************************)
(* Bounds.                                                                 *)
(***************************************************************************)
\* samples are named 1..NumSamples in the spreadsheet and the registry
NumSamples == 3
\* CacheLifetime ranges over 0..MaxLifetime clock units
MaxLifetime == 2
\* the clock advances at most MaxTime units after construction starts
MaxTime == 1
MaxDesired == 2
MaxInputSamples == 2

(***************************************************************************)
(* Values.                                                                 *)
(***************************************************************************)
\* the nil error
Nil == "nil"
\* the error of a failing MLWHClient.SamplesForSponsor
ErrMLWH == "mlwh error"
\* the error of a failing SheetsClient.DimSumMetaData
ErrSheets == "sheets error"
\* the nil Libraries slice: what a map lookup of an absent sponsor yields
NoLibs == << >>
\* the zero time.Time, the initial cache.lastUpdate
ZeroTime == 0
\* the clock when New is called; the zero time is further in the past than
\* any lifetime
StartTime == ZeroTime + MaxLifetime + 2

Sponsors == {"k1", "k2"}
Callers == {"c1", "c2"}
\* the goroutines that call ForSponsor and Close in Spec
MainCallers == {"c1"}
SampleNames == 1 .. NumSamples

(***************************************************************************)
(* The spreadsheet tree (types.Libraries) and the registry list            *)
(* ([]mlwh.Sample).                                                        *)
(***************************************************************************)
\* the members of a finite set of integers in increasing order
SeqOfSet(S) ==
    [i \in 1 .. Cardinality(S) |->
        CHOOSE x \in S : Cardinality({y \in S : y < x}) = i - 1]

\* a Sample as the sheets client builds it: the registry fields are unset
SheetSample(n) == [SampleName |-> n, ManualQC |-> ""]

\* the (library, experiment) places a spreadsheet sample can be put in
Slots == {<<1, 1>>, <<1, 2>>, <<2, 1>>}
NoSlot == <<0, 0>>
Placements == [SampleNames -> Slots \cup {NoSlot}]

SheetExperiment(p, l, e) ==
    [ExperimentID |-> e,
     Samples |-> LET names == SeqOfSet({n \in SampleNames : p[n] = <<l, e>>})
                 IN [i \in 1 .. Len(names) |-> SheetSample(names[i])]]

SheetLibrary(p, l) ==
    [LibraryID |-> l, StudyID |-> "", StudyName |-> "",
     Experiments |->
        LET es == SeqOfSet({e \in 1 .. 2 : <<l, e>> \in Slots})
        IN [i \in 1 .. Len(es) |-> SheetExperiment(p, l, es[i])]]

\* the tree DimSumMetaData returns for a placement of the samples: two
\* libraries, the first with two experiments, the second with one
SheetTree(p) == <<SheetLibrary(p, 1), SheetLibrary(p, 2)>>

\* a registry row
MLWHSample(n) ==
    [SampleName |-> n, ManualQC |-> IF n % 2 = 1 THEN "1" ELSE "0",
     StudyID |-> "studyID1", StudyName |-> "study1"]

\* the registry result holding the rows of the names in S
Registry(S) == LET names == SeqOfSet(S)
               IN [i \in 1 .. Len(names) |-> MLWHSample(names[i])]

(***************************************************************************)
(* freshForSponsorQuery, after both external calls have succeeded.         *)
(***************************************************************************)
\* the map from SampleName to the index of the last registry row of it
mlwhSampleLookup(samples) ==
    [n \in {samples[i].SampleName : i \in 1 .. Len(samples)} |->
        CHOOSE i \in 1 .. Len(samples) :
            /\ samples[i].SampleName = n
            /\ \A j \in 1 .. Len(samples) : samples[j].SampleName = n => j <= i]

\* the body of the innermost loop: a sample without a registry row is
\* skipped by `continue', and for one with a row nothing is done either
\* (the use of the row is commented out); the sample stays as it is
VisitSample(lookup, sample) ==
    IF sample.SampleName \notin DOMAIN lookup THEN sample ELSE sample

VisitExperiment(lookup, exp) ==
    [exp EXCEPT !.Samples =
        [i \in 1 .. Len(exp.Samples) |-> VisitSample(lookup, exp.Samples[i])]]

VisitLibrary(lookup, lib) ==
    [lib EXCEPT !.Experiments =
        [i \in 1 .. Len(lib.Experiments) |->
            VisitExperiment(lookup, lib.Experiments[i])]]

\* the Libraries returned for the registry rows `samples' and the tree
\* `libs': no goodExps / goodSamples slice is built, libs is returned
Consolidate(samples, libs) ==
    LET lookup == mlwhSampleLookup(samples)
    IN [i \in 1 .. Len(libs) |-> VisitLibrary(lookup, libs[i])]

\* freshForSponsorQuery: the registry is asked first, then the spreadsheet;
\* the first error ends the query
\* freshForSponsorQuery asking the spreadsheet before the registry
freshForSponsorQuerySheetsFirst(merr, samples, serr, libs) ==
    IF serr # Nil
    THEN [libs |-> NoLibs, err |-> serr, calls |-> <<"sheets">>, rows |-> << >>]
    ELSE IF merr # Nil
         THEN [libs |-> NoLibs, err |-> merr, calls |-> <<"sheets", "mlwh">>,
               rows |-> << >>]
         ELSE [libs |-> Consolidate(samples, libs), err |-> Nil,
               calls |-> <<"sheets", "mlwh">>, rows |-> samples]

\* (calls: the collaborators asked, in order; rows: the registry rows a
\* successful query had to consolidate)
freshForSponsorQuery(merr, samples, serr, libs) ==
    IF merr # Nil
    THEN [libs |-> NoLibs, err |-> merr, calls |-> <<"mlwh">>, rows |-> << >>]
    ELSE IF serr # Nil
         THEN [libs |-> NoLibs, err |-> serr, calls |-> <<"mlwh", "sheets">>,
               rows |-> << >>]
         ELSE [libs |-> Consolidate(samples, libs), err |-> Nil,
               calls |-> <<"mlwh", "sheets">>, rows |-> samples]

(***************************************************************************)
(* types: Sample.Key, Libraries.Subset and the Clone methods.  A tree here *)
(* holds its Samples as addresses into a heap of Sample structs, as the    *)
(* []*Sample slices of the code do; Library and Experiment structs are     *)
(* copied by value where the code copies them.                             *)
(***************************************************************************)
ErrNoSamplesRequested == "no samples requested"
ErrSamplesNotFound == "samples not found"
ErrNotAllSamplesInSameExperiment == "not all samples in the same experiment"

\* the nil *Sample
NilSample == 0

\* the nil *Library
NilLibrary == [LibraryID |-> "nil", StudyID |-> "nil", Experiments |-> << >>]

\* the (SampleID, RunID) of the Sample structs of a tree, by address: the
\* second and the third have different identities and the same key
TreeIdentities == <<<<"a", "c">>, <<"a", "b.c">>, <<"a.b", "c">>>>

\* the Sample struct at address n before anything is done to it
TypesSample(n) ==
    [SampleID |-> TreeIdentities[((n - 1) % Len(TreeIdentities)) + 1][1],
     RunID |-> TreeIdentities[((n - 1) % Len(TreeIdentities)) + 1][2],
     ManualQC |-> ""]

TypesExperiment(p, l, e) ==
    [ExperimentID |-> <<"exp1", "exp2">>[e],
     Samples |-> SeqOfSet({n \in SampleNames : p[n] = <<l, e>>})]

TypesLibrary(p, l) ==
    [LibraryID |-> <<"lib1", "lib2">>[l], StudyID |-> "study1",
     Experiments |->
        LET es == SeqOfSet({e \in 1 .. 2 : <<l, e>> \in Slots})
        IN [i \in 1 .. Len(es) |-> TypesExperiment(p, l, es[i])]]

\* the Libraries for a placement of the Sample structs: two Libraries, the
\* first with two Experiments, the second with one
TypesTree(p) == <<TypesLibrary(p, 1), TypesLibrary(p, 2)>>

\* Sample.Key
Key(sample) == sample.SampleID \o "." \o sample.RunID

\* getValidSamples skipping an entry only when both of its fields are empty
getValidSamplesEitherField(desired) ==
    LET valid == {Key(desired[i]) :
                    i \in {j \in 1 .. Len(desired) :
                              ~(desired[j].SampleID = "" /\ desired[j].RunID = "")}}
    IN IF Cardinality(valid) = 0
       THEN [valid |-> {}, err |-> ErrNoSamplesRequested]
       ELSE [valid |-> valid, err |-> Nil]

\* getValidSamples: the key set of the map, and the error
getValidSamples(desired) ==
    LET valid == {Key(desired[i]) :
                    i \in {j \in 1 .. Len(desired) :
                              ~(desired[j].SampleID = "" \/ desired[j].RunID = "")}}
    IN IF Cardinality(valid) = 0
       THEN [valid |-> {}, err |-> ErrNoSamplesRequested]
       ELSE [valid |-> valid, err |-> Nil]

\* findDesiredSamplesInExperiment: the addresses of the matching Samples,
\* appended in the order of exp.Samples
findDesiredSamplesInExperiment(heap, exp, desired) ==
    SelectSeq(exp.Samples, LAMBDA a : Key(heap[a]) \in desired)

\* Experiment.Clone: a copy of the struct with the given slice
ExperimentClone(exp, samples) == [exp EXCEPT !.Samples = samples]

\* Library.Clone: a copy of the struct with a new one-element slice
LibraryClone(lib, exp, samples) ==
    [lib EXCEPT !.Experiments = <<ExperimentClone(exp, samples)>>]

\* the (library, experiment) index pairs of l in the order of the two loops
ExperimentOrder(l) ==
    LET pairs == {<<i, j>> \in (1 .. Len(l)) \X (1 .. 2) :
                    j <= Len(l[i].Experiments)}
    IN [n \in 1 .. Cardinality(pairs) |->
          CHOOSE x \in pairs :
              Cardinality({y \in pairs :
                  y[1] < x[1] \/ (y[1] = x[1] /\ y[2] < x[2])}) = n - 1]

RECURSIVE findMatchingLibrarySkipsPartial(_, _, _, _)
\* findMatchingLibrary going on to the next Experiment when only some of the
\* desired Samples are in this one
findMatchingLibrarySkipsPartial(l, heap, desired, n) ==
    IF n > Len(ExperimentOrder(l))
    THEN [lib |-> NilLibrary, err |-> ErrSamplesNotFound]
    ELSE LET lib == l[ExperimentOrder(l)[n][1]]
             exp == lib.Experiments[ExperimentOrder(l)[n][2]]
             samples == findDesiredSamplesInExperiment(heap, exp, desired)
         IN IF Len(samples) # Cardinality(desired)
            THEN findMatchingLibrarySkipsPartial(l, heap, desired, n + 1)
            ELSE [lib |-> LibraryClone(lib, exp, samples), err |-> Nil]

RECURSIVE findMatchingLibraryPartialNotFound(_, _, _, _)
\* findMatchingLibrary reporting ErrSamplesNotFound when only some of the
\* desired Samples are in the first Experiment that has one
findMatchingLibraryPartialNotFound(l, heap, desired, n) ==
    IF n > Len(ExperimentOrder(l))
    THEN [lib |-> NilLibrary, err |-> ErrSamplesNotFound]
    ELSE LET lib == l[ExperimentOrder(l)[n][1]]
             exp == lib.Experiments[ExperimentOrder(l)[n][2]]
             samples == findDesiredSamplesInExperiment(heap, exp, desired)
         IN IF Len(samples) = 0
            THEN findMatchingLibraryPartialNotFound(l, heap, desired, n + 1)
            ELSE IF Len(samples) # Cardinality(desired)
                 THEN [lib |-> NilLibrary, err |-> ErrSamplesNotFound]
                 ELSE [lib |-> LibraryClone(lib, exp, samples), err |-> Nil]

RECURSIVE findMatchingLibraryFrom(_, _, _, _)
\* the loops of findMatchingLibrary from the n-th Experiment on
findMatchingLibraryFrom(l, heap, desired, n) ==
    IF n > Len(ExperimentOrder(l))
    THEN [lib |-> NilLibrary, err |-> ErrSamplesNotFound]
    ELSE LET lib == l[ExperimentOrder(l)[n][1]]
             exp == lib.Experiments[ExperimentOrder(l)[n][2]]
             samples == findDesiredSamplesInExperiment(heap, exp, desired)
         IN IF Len(samples) = 0
            THEN findMatchingLibraryFrom(l, heap, desired, n + 1)
            ELSE IF Len(samples) # Cardinality(desired)
                 THEN [lib |-> NilLibrary,
                       err |-> ErrNotAllSamplesInSameExperiment]
                 ELSE [lib |-> LibraryClone(lib, exp, samples), err |-> Nil]

findMatchingLibrary(l, heap, desired) ==
    findMatchingLibraryFrom(l, heap, desired, 1)

\* Subset looking only for the first entry of desired that has both fields
SubsetFirstEntryOnly(l, heap, desired) ==
    IF getValidSamples(desired).err # Nil
    THEN [lib |-> NilLibrary, err |-> getValidSamples(desired).err]
    ELSE findMatchingLibrary(l, heap,
            {Key(SelectSeq(desired,
                    LAMBDA e : ~(e.SampleID = "" \/ e.RunID = ""))[1])})

\* Libraries.Subset
Subset(l, heap, desired) ==
    IF getValidSamples(desired).err # Nil
    THEN [lib |-> NilLibrary, err |-> getValidSamples(desired).err]
    ELSE findMatchingLibrary(l, heap, getValidSamples(desired).valid)

(***************************************************************************)
(* itl: New, extractSamples, todoSamples, checkFastqFiles and fileExists.  *)
(* The fastq directory is given by whether its path is a directory at all  *)
(* and by the set of file names present in it; os.Stat answers from that.  *)
(***************************************************************************)
ErrNoStudy == "study not specified"
ErrMultipleExperiments == "samples from multiple experiments provided"
ErrMissingFastqFile ==
    "one fastq file for sample run already exists, but not the other"
FastqPair1Suffix == "_1.fastq.gz"
FastqPair2Suffix == "_2.fastq.gz"

\* the nil *ITL
NilITL == [studyID |-> "nil", samples |-> << >>]

\* itl.Sample.FastqPath, as the file name inside outputDir
FastqPath(sample, pairSuffix) == Key(sample) \o pairSuffix

\* os.Stat of a file name inside the directory dir
Stat(dir, name) ==
    IF ~dir.isDir THEN "ENOTDIR"
    ELSE IF name \in dir.names THEN Nil ELSE "ENOENT"

\* os.IsNotExist
IsNotExist(err) == err = "ENOENT"

\* fileExists
fileExists(dir, name) == ~IsNotExist(Stat(dir, name))

\* checkFastqFiles: found, err
checkFastqFiles(input, dir) ==
    LET pair1 == FastqPath(input, FastqPair1Suffix)
        pair2 == FastqPath(input, FastqPair2Suffix)
    IN IF fileExists(dir, pair1) /\ fileExists(dir, pair2)
       THEN [found |-> TRUE, err |-> Nil]
       ELSE IF fileExists(dir, pair1) \/ fileExists(dir, pair2)
            THEN [found |-> TRUE, err |-> ErrMissingFastqFile]
            ELSE [found |-> FALSE, err |-> Nil]

RECURSIVE todoSamplesFrom(_, _, _, _)
\* the loop of todoSamples from the n-th input on, todo being the slice so
\* far
todoSamplesFrom(inputs, dir, n, todo) ==
    IF n > Len(inputs)
    THEN [todo |-> todo, err |-> Nil]
    ELSE IF checkFastqFiles(inputs[n], dir).err # Nil
         THEN [todo |-> << >>, err |-> checkFastqFiles(inputs[n], dir).err]
         ELSE IF checkFastqFiles(inputs[n], dir).found
              THEN todoSamplesFrom(inputs, dir, n + 1, todo)
              ELSE todoSamplesFrom(inputs, dir, n + 1, Append(todo, inputs[n]))

todoSamples(inputs, dir) == todoSamplesFrom(inputs, dir, 1, << >>)

\* the itl.Sample made from an input Sample
ITLSample(input) == [SampleID |-> input.SampleID, RunID |-> input.RunID]

\* extractSamples: for each key the Sample of the first input with that
\* key, in the order of the first inputs
extractSamples(lib) ==
    IF Len(lib.Experiments) # 1
    THEN [samples |-> << >>, err |-> ErrMultipleExperiments]
    ELSE LET inputSamples == lib.Experiments[1].Samples
             firsts == {i \in 1 .. Len(inputSamples) :
                          \A j \in 1 .. (i - 1) :
                              Key(inputSamples[j]) # Key(inputSamples[i])}
         IN [samples |-> [n \in 1 .. Cardinality(firsts) |->
                            ITLSample(inputSamples[SeqOfSet(firsts)[n]])],
             err |-> Nil]

\* itl.New: the ITL and the error
ITLNew(lib, dir) ==
    IF lib = NilLibrary \/ lib.StudyID = ""
    THEN [itl |-> NilITL, err |-> ErrNoStudy]
    ELSE IF extractSamples(lib).err # Nil
         THEN [itl |-> NilITL, err |-> extractSamples(lib).err]
         ELSE IF todoSamples(extractSamples(lib).samples, dir).err # Nil
              THEN [itl |-> NilITL,
                    err |-> todoSamples(extractSamples(lib).samples, dir).err]
              ELSE [itl |-> [studyID |-> lib.StudyID,
                             samples |->
                                todoSamples(extractSamples(lib).samples, dir).todo],
                    err |-> Nil]

(***************************************************************************)
(* itl: FastqCreator.CopyFastqFiles, moveFile, checkExistingFile and       *)
(* copyAndRemove.  The files are a function from path to NoFile or to the  *)
(* size and data of the file at that path.                                 *)
(***************************************************************************)
ErrFastqExistsDiffSize == "fastq file already exists with a different size"

NoFile == [size |-> 0, data |-> "no file"]

\* checkExistingFile
checkExistingFile(fs, src, dst) ==
    IF fs[dst] = NoFile THEN Nil
    ELSE IF fs[src] = NoFile THEN "ENOENT"
         ELSE IF fs[src].size = fs[dst].size THEN Nil
              ELSE ErrFastqExistsDiffSize

\* os.Rename: the files afterwards and the error
Rename(fs, src, dst, exdev) ==
    IF fs[src] = NoFile THEN [fs |-> fs, err |-> "ENOENT"]
    ELSE IF exdev THEN [fs |-> fs, err |-> "EXDEV"]
         ELSE [fs |-> [fs EXCEPT ![dst] = fs[src], ![src] = NoFile],
               err |-> Nil]

\* copyAndRemove
copyAndRemove(fs, src, dst) ==
    IF fs[src] = NoFile THEN [fs |-> fs, err |-> "ENOENT"]
    ELSE [fs |-> [fs EXCEPT ![dst] = fs[src], ![src] = NoFile], err |-> Nil]

\* moveFile, exdev telling whether src and dst are on different devices
moveFile(fs, src, dst, exdev) ==
    IF checkExistingFile(fs, src, dst) # Nil
    THEN [fs |-> fs, err |-> checkExistingFile(fs, src, dst)]
    ELSE IF Rename(fs, src, dst, exdev).err = Nil
         THEN Rename(fs, src, dst, exdev)
         ELSE copyAndRemove(fs, src, dst)

(***************************************************************************)
(* State of a Client, its collaborators and the goroutines using it.       *)
(***************************************************************************)
VARIABLES
    lifetime,      \* opts.CacheLifetime = cache.lifetime
    prefetchList,  \* opts.Prefetch
    now,           \* time.Now()
    mlwhClosed,    \* MLWHClient.Close has been called
    libs,          \* cache.libs
    lastUpdate,    \* cache.lastUpdate
    keyUpdate,     \* history: the time of the last storeData of each sponsor
    stopCh,        \* c.stopCh: "nil" or the channel "ch" made by prefetch
    chClosed,      \* the channel "ch" has been closed
    panicked,      \* a closed channel was closed again
    cErr,          \* c.err
    mainPc,        \* the goroutine calling New
    loopPc,        \* the goroutine running prefetch
    tickPending,   \* a tick is buffered in ticker.C
    nextTick,      \* the time the ticker fires next
    passPc,        \* asyncForSponsors of New ("new") and of prefetch ("loop")
    passIdx,       \* its position in sponsors
    passRes,       \* its result, err of freshForSponsorQuery
    passLog,       \* history: the fetches and stores of the pass so far
    pc,            \* the goroutines calling ForSponsor and Close: "idle", or
                   \* the statement of the call they are at
    call,          \* ForSponsor: sponsor, cached, result, err, and history
    closeReturned, \* history: a Close call has returned
    failed,        \* history: a freshForSponsorQuery has returned an error
    served,        \* history: a ForSponsor call has returned
    qPc,           \* a single freshForSponsorQuery: "call" or "returned"
    qIn,           \* its collaborators: merr, msamples, serr, smeta
    qOut,          \* what it returned
    sPc,           \* a single Libraries.Subset: "call" or "returned"
    sIn,           \* its receiver and argument: tree, desired
    sHeap,         \* the Sample structs the tree's slices point to
    sOut,          \* what it returned: lib, err
    iPc,           \* a single itl.New: "call" or "returned"
    iIn,           \* its arguments: lib, and the directory at fastqDir
    iOut,          \* what it returned: itl, err
    mPc,           \* a single CopyFastqFiles: the pair it is at, or "returned"
    files,         \* the files at the source and destination paths
    mOut           \* the error it returned

vars == <<lifetime, prefetchList, now, mlwhClosed, libs, lastUpdate, keyUpdate, stopCh, chClosed, panicked, cErr,
          mainPc, loopPc, tickPending, nextTick, passPc, passIdx, passRes,
          passLog, pc, call, closeReturned, failed, served, qPc, qIn,
          qOut, sPc, sIn, sHeap, sOut, iPc, iIn, iOut, mPc, files,
          mOut>>

queryVars == <<qPc, qIn, qOut>>
subsetVars == <<sPc, sIn, sHeap, sOut>>
itlVars == <<iPc, iIn, iOut>>
moveVars == <<mPc, files, mOut>>
optVars == <<lifetime, prefetchList>>
cacheVars == <<libs, lastUpdate, keyUpdate>>
stopVars == <<stopCh, chClosed, panicked>>
tickerVars == <<tickPending, nextTick>>
passVars == <<passPc, passIdx, passRes, passLog>>
callerVars == <<pc, call, closeReturned, served>>

Passes == {"new", "loop"}
PrefetchLists == {<< >>, <<"k1">>, <<"k1", "k2">>}
\* the registry holds every sample, or has shrunk to the first one
RegistryStates == {SampleNames, {1}}
\* two states of the spreadsheet: every sample in the first experiment; or
\* the first sample moved to the second library
SheetStates == {[n \in SampleNames |-> <<1, 1>>],
                [n \in SampleNames |-> IF n = 1 THEN <<2, 1>> ELSE <<1, 1>>]}

NoRes == [libs |-> NoLibs, err |-> Nil, calls |-> << >>, rows |-> << >>]
\* the locals of a goroutine that is not inside ForSponsor
\* (running: the stop channel was published and open when the call began)
\* (calls: the collaborators its query asked, in order)
NoCall == [sponsor |-> "", cached |-> FALSE, result |-> NoLibs, err |-> Nil,
           fetched |-> FALSE, running |-> FALSE, calls |-> << >>]

Range(s) == {s[i] : i \in 1 .. Len(s)}

(***************************************************************************)
(* cache                                                                   *)
(***************************************************************************)
\* getData without Add(c.lifetime): the update time itself is compared with
\* the clock
getDataNoLifetime(sponsor) ==
    [cached |-> lastUpdate > now, data |-> libs[sponsor]]

\* cache.getData: cached, data
getData(sponsor) ==
    [cached |-> lastUpdate + lifetime > now, data |-> libs[sponsor]]

\* storeData seen between its two assignments: the snapshot is written, the
\* update time is not yet
storeDataTorn(sponsor, data) ==
    /\ libs' = [libs EXCEPT ![sponsor] = data]
    /\ lastUpdate' = lastUpdate
    /\ keyUpdate' = [keyUpdate EXCEPT ![sponsor] = now]

\* storeData that sets the update time only while it is the zero time
storeDataFirstTime(sponsor, data) ==
    /\ libs' = [libs EXCEPT ![sponsor] = data]
    /\ lastUpdate' = IF lastUpdate = ZeroTime THEN now ELSE lastUpdate
    /\ keyUpdate' = [keyUpdate EXCEPT ![sponsor] = now]

\* storeData adding the new Libraries to the ones stored for the sponsor
storeDataMerges(sponsor, data) ==
    /\ libs' = [libs EXCEPT ![sponsor] = @ \o data]
    /\ lastUpdate' = now
    /\ keyUpdate' = [keyUpdate EXCEPT ![sponsor] = now]

\* cache.storeData
storeData(sponsor, data) ==
    /\ libs' = [libs EXCEPT ![sponsor] = data]
    /\ lastUpdate' = now
    /\ keyUpdate' = [keyUpdate EXCEPT ![sponsor] = now]

\* cache.lastUpdated, Client.LastPrefetchSuccess
LastPrefetchSuccess == lastUpdate

\* Client.Err
Err == cErr

\* the states the collaborators of a Client can be in when it queries them:
\* the error and rows of the registry, the error and tree of the spreadsheet
Collaborators ==
    [merr : {Nil, ErrMLWH}, msamples : RegistryStates,
     serr : {Nil, ErrSheets}, smeta : SheetStates]

\* freshForSponsorQuery against collaborators in state e
Query(e) ==
    freshForSponsorQuery(e.merr, Registry(e.msamples), e.serr,
                         SheetTree(e.smeta))

\* what freshForSponsorQuery can return to the Client
Answers == {Query(e) : e \in Collaborators}

(***************************************************************************)
(* New                                                                     *)
(***************************************************************************)
\* the state before New is called with CacheLifetime in L and Prefetch in P
Constructed(L, P) ==
    /\ lifetime \in L
    /\ prefetchList \in P
    /\ now = StartTime
    /\ mlwhClosed = FALSE
    /\ libs = [k \in Sponsors |-> NoLibs]
    /\ lastUpdate = ZeroTime
    /\ keyUpdate = [k \in Sponsors |-> ZeroTime]
    /\ stopCh = "nil"
    /\ chClosed = FALSE
    /\ panicked = FALSE
    /\ cErr = Nil
    /\ mainPc = "New"
    /\ loopPc = "none"
    /\ tickPending = FALSE
    /\ nextTick = ZeroTime
    /\ passPc = [t \in Passes |-> "done"]
    /\ passIdx = [t \in Passes |-> 1]
    /\ passRes = [t \in Passes |-> NoRes]
    /\ passLog = [t \in Passes |-> << >>]
    /\ pc = [c \in Callers |-> "idle"]
    /\ call = [c \in Callers |-> NoCall]
    /\ closeReturned = FALSE
    /\ failed = FALSE
    /\ served = FALSE

\* the source and the destination of each of the two pairs
Paths == {"src1", "dst1", "src2", "dst2"}

\* no Subset call, no itl.New call and no CopyFastqFiles call is under way
NoSubsetCall ==
    /\ sPc = "returned"
    /\ sIn = [tree |-> << >>, desired |-> << >>]
    /\ sHeap = << >>
    /\ sOut = [lib |-> NilLibrary, err |-> Nil]
    /\ iPc = "returned"
    /\ iIn = [lib |-> NilLibrary, dir |-> [isDir |-> TRUE, names |-> {}]]
    /\ iOut = [itl |-> NilITL, err |-> Nil]
    /\ mPc = "returned"
    /\ files = [path \in Paths |-> NoFile]
    /\ mOut = Nil

\* the values of opts.CacheLifetime: negative, zero, and positive ones
Lifetimes == -1 .. MaxLifetime

Init ==
    /\ Constructed(Lifetimes, PrefetchLists)
    /\ qPc = "returned"
    /\ qIn = (CHOOSE e \in Collaborators : TRUE)
    /\ qOut = NoRes
    /\ NoSubsetCall

\* the call asyncForSponsors(sponsors) by pass t
StartPass(t) ==
    /\ passPc' = [passPc EXCEPT ![t] = "fetch"]
    /\ passIdx' = [passIdx EXCEPT ![t] = 1]
    /\ passRes' = [passRes EXCEPT ![t] = NoRes]
    /\ passLog' = [passLog EXCEPT ![t] = << >>]

\* New deciding on the Prefetch list alone
NewClientIgnoresLifetime ==
    /\ mainPc = "New"
    /\ IF Len(prefetchList) > 0
       THEN /\ mainPc' = "asyncForSponsors"
            /\ StartPass("new")
       ELSE /\ mainPc' = "returned"
            /\ UNCHANGED passVars
    /\ UNCHANGED <<optVars, failed, now, queryVars, subsetVars, itlVars, moveVars, mlwhClosed,
                   cacheVars, stopVars, cErr, loopPc, tickerVars, callerVars>>

\* New up to the call of asyncForSponsors, or to its return without
\* prefetching
NewClient ==
    /\ mainPc = "New"
    /\ IF Len(prefetchList) > 0 /\ lifetime > 0
       THEN /\ mainPc' = "asyncForSponsors"
            /\ StartPass("new")
       ELSE /\ mainPc' = "returned"
            /\ UNCHANGED passVars
    /\ UNCHANGED <<optVars, failed, now, queryVars, subsetVars, itlVars, moveVars, mlwhClosed, cacheVars, stopVars,
                   cErr, loopPc, tickerVars, callerVars>>

\* New starting the goroutine without waiting for asyncForSponsors to return
NewGoBeforePassReturns ==
    /\ mainPc = "asyncForSponsors"
    /\ loopPc' = "spawned"
    /\ mainPc' = "returned"
    /\ UNCHANGED <<optVars, failed, now, queryVars, subsetVars, itlVars, moveVars, mlwhClosed,
                   cacheVars, stopVars, cErr, tickerVars, passVars, callerVars>>

\* New: go c.prefetch(...) after asyncForSponsors has returned; return c
NewGo ==
    /\ mainPc = "asyncForSponsors"
    /\ passPc["new"] = "done"
    /\ loopPc' = "spawned"
    /\ mainPc' = "returned"
    /\ UNCHANGED <<optVars, failed, now, queryVars, subsetVars, itlVars, moveVars, mlwhClosed, cacheVars, stopVars,
                   cErr, tickerVars, passVars, callerVars>>

(***************************************************************************)
(* asyncForSponsors: one iteration in three steps, and the return          *)
(***************************************************************************)
\* result, err := c.freshForSponsorQuery(sponsor)
PassFetch(t) ==
    /\ passPc[t] = "fetch"
    /\ \E r \in Answers :
          /\ failed' = (failed \/ r.err # Nil)
          /\ passRes' = [passRes EXCEPT ![t] = r]
          /\ passLog' = [passLog EXCEPT ![t] =
                            Append(@, <<"fetch", prefetchList[passIdx[t]], r.err>>)]
    /\ passPc' = [passPc EXCEPT ![t] = "record"]
    /\ UNCHANGED <<optVars, now, queryVars, subsetVars, itlVars, moveVars, mlwhClosed, cacheVars, stopVars,
                   cErr, mainPc, loopPc, tickerVars, passIdx, callerVars>>

\* PassRecord without its early return: the nil result of a failed query
\* goes on to be stored
PassRecordThenStore(t) ==
    /\ passPc[t] = "record"
    /\ cErr' = passRes[t].err
    /\ passPc' = [passPc EXCEPT ![t] = "store"]
    /\ UNCHANGED <<optVars, failed, now, queryVars, subsetVars, itlVars, moveVars, mlwhClosed, cacheVars,
                   stopVars, mainPc, loopPc, tickerVars, passIdx, passRes,
                   passLog, callerVars>>

\* PassRecord with `continue' in place of `return': after a failed query
\* the pass goes on with the next sponsor
PassRecordThenContinue(t) ==
    /\ passPc[t] = "record"
    /\ cErr' = passRes[t].err
    /\ passPc' = [passPc EXCEPT ![t] =
                     IF passRes[t].err = Nil THEN "store"
                     ELSE IF passIdx[t] < Len(prefetchList) THEN "fetch"
                          ELSE "return"]
    /\ passIdx' = [passIdx EXCEPT ![t] =
                      IF passRes[t].err = Nil THEN @ ELSE @ + 1]
    /\ UNCHANGED <<optVars, failed, now, queryVars, subsetVars, itlVars, moveVars, mlwhClosed, cacheVars,
                   stopVars, mainPc, loopPc, tickerVars, passRes, passLog,
                   callerVars>>

\* PassRecord assigning c.err only when the query failed: a success does not
\* clear the error
PassRecordKeepsErr(t) ==
    /\ passPc[t] = "record"
    /\ cErr' = IF passRes[t].err # Nil THEN passRes[t].err ELSE cErr
    /\ passPc' = [passPc EXCEPT ![t] = IF passRes[t].err # Nil THEN "return"
                                      ELSE "store"]
    /\ UNCHANGED <<optVars, failed, now, queryVars, subsetVars, itlVars, moveVars, mlwhClosed, cacheVars, stopVars,
                   mainPc, loopPc, tickerVars, passIdx, passRes, passLog,
                   callerVars>>

\* PassRecord assigning c.err once per pass: when a query failed, or after
\* the query of the last sponsor
PassRecordOncePerPass(t) ==
    /\ passPc[t] = "record"
    /\ cErr' = IF passRes[t].err # Nil \/ passIdx[t] = Len(prefetchList)
               THEN passRes[t].err ELSE cErr
    /\ passPc' = [passPc EXCEPT ![t] = IF passRes[t].err # Nil THEN "return"
                                      ELSE "store"]
    /\ UNCHANGED <<optVars, failed, now, queryVars, subsetVars, itlVars, moveVars, mlwhClosed, cacheVars, stopVars,
                   mainPc, loopPc, tickerVars, passIdx, passRes, passLog,
                   callerVars>>

\* c.err = err; if err != nil { return }
PassRecord(t) ==
    /\ passPc[t] = "record"
    /\ cErr' = passRes[t].err
    /\ passPc' = [passPc EXCEPT ![t] = IF passRes[t].err # Nil THEN "return"
                                      ELSE "store"]
    /\ UNCHANGED <<optVars, failed, now, queryVars, subsetVars, itlVars, moveVars, mlwhClosed, cacheVars, stopVars,
                   mainPc, loopPc, tickerVars, passIdx, passRes, passLog,
                   callerVars>>

\* c.cache.storeData(sponsor, result); next sponsor
PassStore(t) ==
    /\ passPc[t] = "store"
    /\ storeData(prefetchList[passIdx[t]], passRes[t].libs)
    /\ passLog' = [passLog EXCEPT ![t] =
                      Append(@, <<"store", prefetchList[passIdx[t]], Nil>>)]
    /\ passIdx' = [passIdx EXCEPT ![t] = @ + 1]
    /\ passPc' = [passPc EXCEPT ![t] = IF passIdx[t] < Len(prefetchList)
                                      THEN "fetch" ELSE "return"]
    /\ UNCHANGED <<optVars, failed, now, queryVars, subsetVars, itlVars, moveVars, mlwhClosed, stopVars, cErr, mainPc,
                   loopPc, tickerVars, passRes, callerVars>>

\* asyncForSponsors returns; its locals are gone
PassReturn(t) ==
    /\ passPc[t] = "return"
    /\ passPc' = [passPc EXCEPT ![t] = "done"]
    /\ passIdx' = [passIdx EXCEPT ![t] = 1]
    /\ passRes' = [passRes EXCEPT ![t] = NoRes]
    /\ passLog' = [passLog EXCEPT ![t] = << >>]
    /\ UNCHANGED <<optVars, failed, now, queryVars, subsetVars, itlVars, moveVars, mlwhClosed, cacheVars, stopVars,
                   cErr, mainPc, loopPc, tickerVars, callerVars>>

asyncForSponsors ==
    \E t \in Passes :
        PassFetch(t) \/ PassRecord(t) \/ PassStore(t) \/ PassReturn(t)

(***************************************************************************)
(* prefetch                                                                *)
(***************************************************************************)
\* the goroutine makes and publishes the stop channel, then makes the ticker
PrefetchStart ==
    /\ loopPc = "spawned"
    /\ stopCh' = "ch"
    /\ nextTick' = now + lifetime
    /\ tickPending' = FALSE
    /\ loopPc' = "select"
    /\ UNCHANGED <<optVars, failed, now, queryVars, subsetVars, itlVars, moveVars, mlwhClosed, cacheVars, chClosed,
                   panicked, cErr, mainPc, passVars, callerVars>>

\* select, case <-ticker.C: c.asyncForSponsors(sponsors)
PrefetchTick ==
    /\ loopPc = "select"
    /\ passPc["loop"] = "done"
    /\ tickPending
    /\ tickPending' = FALSE
    /\ StartPass("loop")
    /\ UNCHANGED <<optVars, failed, now, queryVars, subsetVars, itlVars, moveVars, mlwhClosed, cacheVars, stopVars,
                   cErr, mainPc, loopPc, nextTick, callerVars>>

\* select, case <-stopCh: return (the deferred ticker.Stop runs)
PrefetchStop ==
    /\ loopPc = "select"
    /\ passPc["loop"] = "done"
    /\ chClosed
    /\ loopPc' = "exited"
    /\ tickPending' = FALSE
    /\ nextTick' = ZeroTime
    /\ UNCHANGED <<optVars, failed, now, queryVars, subsetVars, itlVars, moveVars, mlwhClosed, cacheVars, stopVars,
                   cErr, mainPc, passVars, callerVars>>

\* the clock advances; a running ticker that is due puts a tick in its
\* channel, which holds one tick
Advance ==
    /\ now < StartTime + MaxTime
    /\ now' = now + 1
    /\ IF loopPc = "select" /\ now + 1 >= nextTick
       THEN /\ tickPending' = TRUE
            /\ nextTick' = nextTick + lifetime
       ELSE UNCHANGED tickerVars
    /\ UNCHANGED <<optVars, failed, queryVars, subsetVars, itlVars, moveVars, mlwhClosed, cacheVars, stopVars, cErr,
                   mainPc, loopPc, passVars, callerVars>>

(***************************************************************************)
(* ForSponsor                                                              *)
(***************************************************************************)
\* cached, result := c.cache.getData(sponsor)
ForSponsorGetData(c, sponsor) ==
    /\ mainPc = "returned"
    /\ pc[c] = "idle"
    /\ pc' = [pc EXCEPT ![c] = "ForSponsor"]
    /\ call' = [call EXCEPT ![c] =
                   [NoCall EXCEPT !.sponsor = sponsor,
                                  !.cached = getData(sponsor).cached,
                                  !.result = getData(sponsor).data,
                                  !.running = (stopCh # "nil")]]
    /\ UNCHANGED <<optVars, failed, now, queryVars, subsetVars, itlVars, moveVars, mlwhClosed, cacheVars, stopVars,
                   cErr, mainPc, loopPc, tickerVars, passVars, closeReturned,
                   served>>

\* ForSponsorMode with single-flight: a caller that finds another caller
\* already fetching the same sponsor does not fetch
ForSponsorModeSingleFlight(c) ==
    /\ pc[c] = "ForSponsor"
    /\ pc' = [pc EXCEPT ![c] =
                 IF /\ ~call[c].cached
                    /\ stopCh = "nil"
                    /\ ~\E d \in Callers \ {c} :
                           /\ pc[d] \in {"fresh", "store"}
                           /\ call[d].sponsor = call[c].sponsor
                 THEN "fresh" ELSE "return"]
    /\ UNCHANGED <<optVars, failed, now, queryVars, subsetVars, itlVars, moveVars, mlwhClosed, cacheVars, stopVars,
                   cErr, mainPc, loopPc, tickerVars, passVars, call,
                   closeReturned, served>>

\* stopCh := c.stopCh; if !cached && stopCh == nil { fetch }
ForSponsorMode(c) ==
    /\ pc[c] = "ForSponsor"
    /\ pc' = [pc EXCEPT ![c] = IF ~call[c].cached /\ stopCh = "nil"
                                THEN "fresh" ELSE "return"]
    /\ UNCHANGED <<optVars, failed, now, queryVars, subsetVars, itlVars, moveVars, mlwhClosed, cacheVars, stopVars,
                   cErr, mainPc, loopPc, tickerVars, passVars, call,
                   closeReturned, served>>

\* result, err = c.freshForSponsorQuery(sponsor); if err != nil
\* { return nil, err }
ForSponsorFresh(c) ==
    /\ pc[c] = "fresh"
    /\ \E r \in Answers :
          /\ failed' = (failed \/ r.err # Nil)
          /\ call' = [call EXCEPT ![c].fetched = TRUE,
                                  ![c].result = r.libs,
                                  ![c].err = r.err,
                                  ![c].calls = r.calls]
          /\ pc' = [pc EXCEPT ![c] = IF r.err # Nil THEN "return" ELSE "store"]
    /\ UNCHANGED <<optVars, now, queryVars, subsetVars, itlVars, moveVars, mlwhClosed, cacheVars, stopVars,
                   cErr, mainPc, loopPc, tickerVars, passVars, closeReturned,
                   served>>

\* c.cache.storeData(sponsor, result)
ForSponsorStore(c) ==
    /\ pc[c] = "store"
    /\ storeData(call[c].sponsor, call[c].result)
    /\ pc' = [pc EXCEPT ![c] = "return"]
    /\ UNCHANGED <<optVars, failed, now, queryVars, subsetVars, itlVars, moveVars, mlwhClosed, stopVars, cErr, mainPc,
                   loopPc, tickerVars, passVars, call, closeReturned,
                   served>>

\* return result, err: the caller has call[c].result and call[c].err
ForSponsorReturn(c) ==
    /\ pc[c] = "return"
    /\ pc' = [pc EXCEPT ![c] = "idle"]
    /\ call' = [call EXCEPT ![c] = NoCall]
    /\ served' = TRUE
    /\ UNCHANGED <<optVars, failed, now, queryVars, subsetVars, itlVars, moveVars, mlwhClosed, cacheVars, stopVars,
                   cErr, mainPc, loopPc, tickerVars, passVars,
                   closeReturned>>

ForSponsor(c) ==
    \/ \E sponsor \in Sponsors : ForSponsorGetData(c, sponsor)
    \/ ForSponsorMode(c)
    \/ ForSponsorFresh(c)
    \/ ForSponsorStore(c)
    \/ ForSponsorReturn(c)

(***************************************************************************)
(* Close                                                                   *)
(***************************************************************************)
\* err := c.mc.Close()
CloseMLWH(c) ==
    /\ mainPc = "returned"
    /\ pc[c] = "idle"
    /\ mlwhClosed' = TRUE
    /\ pc' = [pc EXCEPT ![c] = "Close"]
    /\ UNCHANGED <<optVars, failed, now, queryVars, subsetVars, itlVars, moveVars, cacheVars, stopVars, cErr, mainPc,
                   loopPc, tickerVars, passVars, call, closeReturned,
                   served>>

\* CloseStop without `c.stopCh = nil': the closed channel stays published
CloseStopKeepsChannel(c) ==
    /\ pc[c] = "Close"
    /\ IF stopCh # "nil"
       THEN /\ panicked' = (panicked \/ chClosed)
            /\ chClosed' = TRUE
            /\ stopCh' = stopCh
       ELSE UNCHANGED stopVars
    /\ pc' = [pc EXCEPT ![c] = "CloseReturn"]
    /\ UNCHANGED <<optVars, failed, now, queryVars, subsetVars, itlVars, moveVars, mlwhClosed, cacheVars, cErr, mainPc,
                   loopPc, tickerVars, passVars, call, closeReturned, served>>

\* under stopMu: if c.stopCh != nil { close(c.stopCh); c.stopCh = nil }
\* (closing a closed channel panics)
CloseStop(c) ==
    /\ pc[c] = "Close"
    /\ IF stopCh # "nil"
       THEN /\ panicked' = (panicked \/ chClosed)
            /\ chClosed' = TRUE
            /\ stopCh' = "nil"
       ELSE UNCHANGED stopVars
    /\ pc' = [pc EXCEPT ![c] = "CloseReturn"]
    /\ UNCHANGED <<optVars, failed, now, queryVars, subsetVars, itlVars, moveVars, mlwhClosed, cacheVars, cErr, mainPc,
                   loopPc, tickerVars, passVars, call, closeReturned, served>>

\* the deferred Unlock has run; return err
CloseReturn(c) ==
    /\ pc[c] = "CloseReturn"
    /\ closeReturned' = TRUE
    /\ pc' = [pc EXCEPT ![c] = "idle"]
    /\ UNCHANGED <<optVars, failed, now, queryVars, subsetVars, itlVars, moveVars, mlwhClosed, cacheVars, stopVars,
                   cErr, mainPc, loopPc, tickerVars, passVars, call, served>>

Close(c) == CloseMLWH(c) \/ CloseStop(c) \/ CloseReturn(c)

Next ==
    \/ NewClient
    \/ NewGo
    \/ asyncForSponsors
    \/ PrefetchStart
    \/ PrefetchTick
    \/ PrefetchStop
    \/ Advance
    \/ \E c \in MainCallers : ForSponsor(c)
    \/ \E c \in MainCallers : Close(c)

Spec == Init /\ [][Next]_vars

\* the Client with two goroutines that call Close, one after the other or
\* at the same time
NextClose ==
    \/ NewClient
    \/ NewGo
    \/ asyncForSponsors
    \/ PrefetchStart
    \/ PrefetchTick
    \/ PrefetchStop
    \/ Advance
    \/ \E c \in Callers : Close(c)

SpecClose == Init /\ [][NextClose]_vars

\* the Client without prefetching and two goroutines that call ForSponsor,
\* one after the other or at the same time
InitCallers ==
    /\ Constructed(Lifetimes, {<< >>})
    /\ qPc = "returned"
    /\ qIn = (CHOOSE e \in Collaborators : TRUE)
    /\ qOut = NoRes
    /\ NoSubsetCall

NextCallers ==
    \/ NewClient
    \/ Advance
    \/ \E c \in Callers : ForSponsor(c)

SpecCallers == InitCallers /\ [][NextCallers]_vars

\* the steps of the goroutine running prefetch
LoopStep ==
    \/ PrefetchStart
    \/ PrefetchTick
    \/ PrefetchStop
    \/ PassFetch("loop")
    \/ PassRecord("loop")
    \/ PassStore("loop")
    \/ PassReturn("loop")

\* the Client with a prefetch goroutine that is scheduled whenever it can
\* run: a started goroutine is not starved, and no collaborator call blocks
\* for ever
SpecFair == Spec /\ WF_vars(LoopStep)

(***************************************************************************)
(* freshForSponsorQuery on its own, for every registry content and every   *)
(* placement of the spreadsheet's samples.                                 *)
(***************************************************************************)
QueryInputs ==
    [merr : {Nil, ErrMLWH}, msamples : SUBSET SampleNames,
     serr : {Nil, ErrSheets}, smeta : Placements]

InitQuery ==
    /\ Constructed({0}, {<< >>})
    /\ qPc = "call"
    /\ qIn \in QueryInputs
    /\ qOut = NoRes
    /\ NoSubsetCall

\* c.freshForSponsorQuery(sponsor) is called and returns
QueryCall ==
    /\ qPc = "call"
    /\ qOut' = Query(qIn)
    /\ qPc' = "returned"
    /\ UNCHANGED <<optVars, failed, now, mlwhClosed, cacheVars, stopVars, cErr, mainPc,
                   loopPc, tickerVars, passVars, callerVars, qIn, subsetVars, itlVars, moveVars>>

NextQuery == QueryCall

SpecQuery == InitQuery /\ [][NextQuery]_vars

(***************************************************************************)
(* A single call of Libraries.Subset on a tree and a desired list, and     *)
(* what its caller may then do with the Library it got: write to the       *)
(* struct, to its Experiment, to the Experiment's slice, and to a Sample   *)
(* the slice points to.                                                    *)
(***************************************************************************)
\* the Samples a caller may put into desired: two with a field missing, and
\* the three identities of the tree's Samples
DesiredEntries ==
    {[SampleID |-> "", RunID |-> "c", ManualQC |-> ""],
     [SampleID |-> "a", RunID |-> "", ManualQC |-> ""]}
        \cup {[SampleID |-> TreeIdentities[i][1], RunID |-> TreeIdentities[i][2],
                ManualQC |-> ""] : i \in 1 .. Len(TreeIdentities)}

DesiredLists ==
    UNION {[1 .. n -> DesiredEntries] : n \in 0 .. MaxDesired}

InitSubset ==
    /\ Constructed({0}, {<< >>})
    /\ qPc = "returned"
    /\ qIn = (CHOOSE e \in Collaborators : TRUE)
    /\ qOut = NoRes
    /\ sPc = "call"
    /\ \E p \in Placements, d \in DesiredLists :
          sIn = [tree |-> TypesTree(p), desired |-> d]
    /\ sHeap = [n \in SampleNames |-> TypesSample(n)]
    /\ sOut = [lib |-> NilLibrary, err |-> Nil]
    /\ iPc = "returned"
    /\ iIn = [lib |-> NilLibrary, dir |-> [isDir |-> TRUE, names |-> {}]]
    /\ iOut = [itl |-> NilITL, err |-> Nil]
    /\ mPc = "returned"
    /\ files = [path \in Paths |-> NoFile]
    /\ mOut = Nil

clientVars == <<optVars, failed, now, queryVars, mlwhClosed, cacheVars,
                stopVars, cErr, mainPc, loopPc, tickerVars, passVars,
                callerVars>>

\* Subset removing the entries without both identities from the caller's
\* desired list
SubsetCallCompactsDesired ==
    /\ sPc = "call"
    /\ sOut' = Subset(sIn.tree, sHeap, sIn.desired)
    /\ sIn' = [sIn EXCEPT !.desired =
                  SelectSeq(sIn.desired,
                      LAMBDA e : ~(e.SampleID = "" \/ e.RunID = ""))]
    /\ sPc' = "returned"
    /\ UNCHANGED <<clientVars, itlVars, moveVars, sHeap>>

\* l.Subset(desired) is called and returns
SubsetCall ==
    /\ sPc = "call"
    /\ sOut' = Subset(sIn.tree, sHeap, sIn.desired)
    /\ sPc' = "returned"
    /\ UNCHANGED <<clientVars, itlVars, moveVars, sIn, sHeap>>

\* the caller assigns to a field of the returned *Library
MutateLibrary ==
    /\ sPc = "returned"
    /\ sOut.err = Nil
    /\ sOut' = [sOut EXCEPT !.lib.LibraryID = "changed"]
    /\ UNCHANGED <<clientVars, itlVars, moveVars, sPc, sIn, sHeap>>

\* the caller assigns to a field of the returned Library's *Experiment
MutateExperiment ==
    /\ sPc = "returned"
    /\ sOut.err = Nil
    /\ sOut' = [sOut EXCEPT !.lib.Experiments[1].ExperimentID = "changed"]
    /\ UNCHANGED <<clientVars, itlVars, moveVars, sPc, sIn, sHeap>>

\* the caller assigns nil to an element of the returned Experiment's slice
MutateSlice ==
    /\ sPc = "returned"
    /\ sOut.err = Nil
    /\ \E i \in 1 .. Len(sOut.lib.Experiments[1].Samples) :
          sOut' = [sOut EXCEPT !.lib.Experiments[1].Samples[i] = NilSample]
    /\ UNCHANGED <<clientVars, itlVars, moveVars, sPc, sIn, sHeap>>

\* the caller assigns to a field of a *Sample of the returned Experiment
MutateSample ==
    /\ sPc = "returned"
    /\ sOut.err = Nil
    /\ \E i \in 1 .. Len(sOut.lib.Experiments[1].Samples) :
          /\ sOut.lib.Experiments[1].Samples[i] # NilSample
          /\ sHeap' = [sHeap EXCEPT
                ![sOut.lib.Experiments[1].Samples[i]].ManualQC = "changed"]
    /\ UNCHANGED <<clientVars, itlVars, moveVars, sPc, sIn, sOut>>

NextSubset ==
    \/ SubsetCall
    \/ MutateLibrary
    \/ MutateExperiment
    \/ MutateSlice
    \/ MutateSample

SpecSubset == InitSubset /\ [][NextSubset]_vars

(***************************************************************************)
(* A single call of itl.New on a Library and a fastq directory.            *)
(***************************************************************************)
\* the Samples of an input Experiment: the three identities of the tree's
\* Samples, as values
InputSamples ==
    {[SampleID |-> TreeIdentities[i][1], RunID |-> TreeIdentities[i][2],
      ManualQC |-> ""] : i \in 1 .. Len(TreeIdentities)}

InputSampleLists ==
    UNION {[1 .. n -> InputSamples] : n \in 0 .. MaxInputSamples}

\* nil, and Libraries with or without a study and with no, one or two
\* Experiments, the Samples being in the first
InputLibraries ==
    {NilLibrary} \cup
    {[LibraryID |-> "lib1", StudyID |-> study,
      Experiments |-> [e \in 1 .. n |->
                         [ExperimentID |-> <<"exp1", "exp2">>[e],
                          Samples |-> IF e = 1 THEN samples ELSE << >>]]] :
        study \in {"", "study1"}, n \in 0 .. 2, samples \in InputSampleLists}

\* the fastq file names of the input Samples
FastqNames ==
    {FastqPath(sample, suffix) :
        sample \in InputSamples, suffix \in {FastqPair1Suffix, FastqPair2Suffix}}

\* the fastq directory: a directory holding some of the fastq files, or a
\* path that is not a directory
Directories ==
    {[isDir |-> TRUE, names |-> names] : names \in SUBSET FastqNames}
        \cup {[isDir |-> FALSE, names |-> {}]}

InitITL ==
    /\ Constructed({0}, {<< >>})
    /\ qPc = "returned"
    /\ qIn = (CHOOSE e \in Collaborators : TRUE)
    /\ qOut = NoRes
    /\ sPc = "returned"
    /\ sIn = [tree |-> << >>, desired |-> << >>]
    /\ sHeap = << >>
    /\ sOut = [lib |-> NilLibrary, err |-> Nil]
    /\ iPc = "call"
    /\ \E lib \in InputLibraries, dir \in Directories :
          iIn = [lib |-> lib, dir |-> dir]
    /\ iOut = [itl |-> NilITL, err |-> Nil]
    /\ mPc = "returned"
    /\ files = [path \in Paths |-> NoFile]
    /\ mOut = Nil

\* New(lib, fastqDir) is called and returns
NewITLCall ==
    /\ iPc = "call"
    /\ iOut' = ITLNew(iIn.lib, iIn.dir)
    /\ iPc' = "returned"
    /\ UNCHANGED <<clientVars, subsetVars, moveVars, iIn>>

NextITL == NewITLCall

SpecITL == InitITL /\ [][NextITL]_vars

(***************************************************************************)
(* A single call of FastqCreator.CopyFastqFiles.                           *)
(***************************************************************************)
\* what may be at a path: nothing, or one of three files, two of them of
\* the same size
FileStates ==
    {NoFile, [size |-> 1, data |-> "x"], [size |-> 1, data |-> "y"],
     [size |-> 2, data |-> "zz"]}

InitMove ==
    /\ Constructed({0}, {<< >>})
    /\ qPc = "returned"
    /\ qIn = (CHOOSE e \in Collaborators : TRUE)
    /\ qOut = NoRes
    /\ sPc = "returned"
    /\ sIn = [tree |-> << >>, desired |-> << >>]
    /\ sHeap = << >>
    /\ sOut = [lib |-> NilLibrary, err |-> Nil]
    /\ iPc = "returned"
    /\ iIn = [lib |-> NilLibrary, dir |-> [isDir |-> TRUE, names |-> {}]]
    /\ iOut = [itl |-> NilITL, err |-> Nil]
    /\ mPc = "pair1"
    /\ files \in [Paths -> FileStates]
    /\ mOut = Nil

\* one iteration of the loop of CopyFastqFiles: moveFile for the pair, and
\* the return at its error or after the second pair
CopyFastqFiles ==
    /\ mPc \in {"pair1", "pair2"}
    /\ \E exdev \in BOOLEAN :
          LET src == IF mPc = "pair1" THEN "src1" ELSE "src2"
              dst == IF mPc = "pair1" THEN "dst1" ELSE "dst2"
              moved == moveFile(files, src, dst, exdev)
          IN /\ files' = moved.fs
             /\ mOut' = moved.err
             /\ mPc' = IF moved.err # Nil \/ mPc = "pair2"
                       THEN "returned" ELSE "pair2"
    /\ UNCHANGED <<clientVars, subsetVars, itlVars>>

NextMove == CopyFastqFiles

SpecMove == InitMove /\ [][NextMove]_vars

(***************************************************************************)
(* Consolidation (freshForSponsorQuery), checked under SpecQuery.          *)
(***************************************************************************)
\* the (library, experiment, sample name) places of the samples of a tree
TreeSamples(tree) ==
    {<<tree[i].LibraryID, tree[i].Experiments[j].ExperimentID,
       tree[i].Experiments[j].Samples[k].SampleName>> :
        <<i, j, k>> \in
            {x \in (DOMAIN tree) \X (1 .. 2) \X (1 .. NumSamples) :
                /\ x[2] \in DOMAIN tree[x[1]].Experiments
                /\ x[3] \in DOMAIN tree[x[1]].Experiments[x[2]].Samples}}

\* the (library, experiment) pairs of a tree
TreeExperiments(tree) ==
    {<<tree[i].LibraryID, tree[i].Experiments[j].ExperimentID>> :
        <<i, j>> \in {x \in (DOMAIN tree) \X (1 .. 2) :
                        x[2] \in DOMAIN tree[x[1]].Experiments}}

QueryReturnedLibs == qPc = "returned" /\ qOut.err = Nil

\* C5: the tree a fetch returns holds a sample of the spreadsheet tree iff
\* the registry result has a row for that sample; samples without a row are
\* absent from it.
C5_RetainedIffInRegistry ==
    QueryReturnedLibs =>
        TreeSamples(qOut.libs) =
            {x \in TreeSamples(SheetTree(qIn.smeta)) : x[3] \in qIn.msamples}

\* C6: in the tree a fetch returns no experiment has zero samples and no
\* library has zero experiments; an experiment none of whose samples has a
\* registry row, and a library with no such experiment, do not appear.
C6_NoEmptyExperimentOrLibrary ==
    QueryReturnedLibs =>
        /\ \A i \in DOMAIN qOut.libs :
              /\ Len(qOut.libs[i].Experiments) > 0
              /\ \A j \in DOMAIN qOut.libs[i].Experiments :
                    Len(qOut.libs[i].Experiments[j].Samples) > 0
        /\ \A e \in TreeExperiments(qOut.libs) :
              \E n \in qIn.msamples : qIn.smeta[n] = e
        /\ \A i \in DOMAIN qOut.libs :
              \E n \in qIn.msamples : qIn.smeta[n][1] = qOut.libs[i].LibraryID

\* C7: every sample of the returned tree that has a registry row carries the
\* QC flag of that row, and its library carries the row's study identity and
\* study name.
C7_RegistryFieldsAttached ==
    QueryReturnedLibs =>
        \A i \in DOMAIN qOut.libs :
            \A j \in DOMAIN qOut.libs[i].Experiments :
                \A k \in DOMAIN qOut.libs[i].Experiments[j].Samples :
                    LET sample == qOut.libs[i].Experiments[j].Samples[k]
                        row == MLWHSample(sample.SampleName)
                    IN sample.SampleName \in qIn.msamples =>
                          /\ sample.ManualQC = row.ManualQC
                          /\ qOut.libs[i].StudyID = row.StudyID
                          /\ qOut.libs[i].StudyName = row.StudyName

(***************************************************************************)
(* The Client, checked under Spec.                                         *)
(***************************************************************************)
\* New was given sponsors to prefetch and a positive lifetime
Prefetching == Len(prefetchList) > 0 /\ lifetime > 0

\* C1: with prefetching configured, a ForSponsor call for a prefetched
\* sponsor made before Close has returned never queries the collaborators
\* on the caller's goroutine and returns a nil error.
C1_PrefetchedNeverFetchesOnCaller ==
    \A c \in Callers :
        (Prefetching /\ ~closeReturned /\ call[c].sponsor \in Range(prefetchList))
            => /\ pc[c] \notin {"fresh", "store"}
               /\ ~call[c].fetched
               /\ call[c].err = Nil

\* C2: getData(k) reports fresh iff k itself was stored less than lifetime
\* ago; a sponsor never stored is reported not fresh, with the empty
\* snapshot.
C2_FreshIffSponsorStoredWithinLifetime ==
    \A k \in Sponsors :
        /\ getData(k).cached <=> (now < keyUpdate[k] + lifetime)
        /\ keyUpdate[k] = ZeroTime =>
              getData(k) = [cached |-> FALSE, data |-> NoLibs]

\* C3: without a scheduler ForSponsor returns the stored snapshot without a
\* query when the store reports fresh, else it queries once and returns the
\* stored result or the error; so a call for a sponsor never stored before
\* always queries.
C3_OnDemandFetchesUnlessSponsorFresh ==
    \A c \in Callers :
        (~Prefetching /\ pc[c] = "return") =>
            /\ call[c].cached =>
                  ~call[c].fetched /\ call[c].err = Nil
            /\ ~call[c].cached =>
                  /\ call[c].fetched
                  /\ call[c].err = Nil => libs[call[c].sponsor] = call[c].result
                  /\ call[c].err # Nil => call[c].result = NoLibs
            /\ keyUpdate[call[c].sponsor] = ZeroTime => call[c].fetched

\* C4: while the scheduler runs, a ForSponsor call for a sponsor that is not
\* prefetched queries the collaborators when the store does not report
\* fresh.
C4_UnprefetchedSponsorIsOnDemand ==
    \A c \in Callers :
        (/\ Prefetching
         /\ pc[c] = "return"
         /\ call[c].running
         /\ call[c].sponsor \notin Range(prefetchList)
         /\ ~call[c].cached)
            => call[c].fetched

\* the sponsors a pass has queried, in order
Fetched(log) == [i \in 1 .. Len(SelectSeq(log, LAMBDA e : e[1] = "fetch")) |->
                    SelectSeq(log, LAMBDA e : e[1] = "fetch")[i][2]]

\* C8: a failed refresh never changes the store: no step of a pass that
\* holds the error of its query changes a snapshot or the update time, and
\* a ForSponsor call begun while the scheduler runs returns the snapshot it
\* read from the store, with a nil error and without a query.
C8_FailedRefreshKeepsStore ==
    [][/\ \A t \in Passes :
            (passRes[t].err # Nil /\ passPc'[t] # passPc[t])
                => (libs' = libs /\ lastUpdate' = lastUpdate)
       /\ \A t \in Passes :
            (passPc[t] = "fetch" /\ passPc'[t] # "fetch")
                => (libs' = libs /\ lastUpdate' = lastUpdate)
       /\ \A c \in Callers :
            (pc[c] = "idle" /\ pc'[c] = "ForSponsor")
                => call'[c].result = libs[call'[c].sponsor]
       /\ \A c \in Callers :
            (pc'[c] = "return" /\ pc[c] # "return" /\ call'[c].running)
                => /\ call'[c].err = Nil
                   /\ ~call'[c].fetched
                   /\ call'[c].result = call[c].result
                   /\ libs' = libs]_vars

\* a tick's pass has failed and left the snapshot of k1, which a stale
\* ForSponsor call then returns
C8_Witness ==
    /\ passPc["loop"] = "return"
    /\ passRes["loop"].err # Nil
    /\ libs["k1"] # NoLibs
    /\ pc["c1"] = "return"
    /\ call["c1"].sponsor = "k1"
    /\ call["c1"].running
    /\ ~call["c1"].cached
    /\ call["c1"].result = libs["k1"]
    /\ call["c1"].err = Nil

\* C9: in a pass over the configured sponsors, a failed query is the last
\* thing the pass does: no later sponsor is queried or stored, the sponsors
\* before it were queried in configured order, and Err() at the end of the
\* pass is that query's error.
C9_PassStopsAtFirstFailure ==
    \A t \in Passes :
        LET log == passLog[t]
            n == Len(log)
        IN /\ \A i \in 1 .. n :
                 (log[i][1] = "fetch" /\ log[i][3] # Nil) => i = n
           /\ \A i \in 1 .. Len(Fetched(log)) :
                 i <= Len(prefetchList) /\ Fetched(log)[i] = prefetchList[i]
           /\ \A i \in 1 .. n :
                 log[i][1] = "store" => (i > 1 /\ log[i - 1] = <<"fetch", log[i][2], Nil>>)
           /\ (passPc[t] = "return" /\ n > 0 /\ log[n][3] # Nil)
                 => /\ cErr = log[n][3]
                    /\ passIdx[t] <= Len(prefetchList)
                    /\ log[n][2] = prefetchList[passIdx[t]]
                    /\ \A j \in (passIdx[t] + 1) .. Len(prefetchList) :
                          \A i \in 1 .. n : log[i][2] # prefetchList[j]

\* a tick's pass over k1, k2 has failed at k1 while k2 has a snapshot
C9_Witness ==
    /\ prefetchList = <<"k1", "k2">>
    /\ passPc["loop"] = "return"
    /\ passLog["loop"] = <<<<"fetch", "k1", ErrMLWH>>>>
    /\ cErr = ErrMLWH
    /\ libs["k2"] # NoLibs

\* the snapshots a successful query can return
GoodSnapshots == {a.libs : a \in {b \in Answers : b.err = Nil}}

\* C10: with prefetching configured and no failed query, New's pass over
\* all sponsors is complete before New returns and before the loop is
\* started, and the first ForSponsor call for a prefetched sponsor returns
\* the stored snapshot without a query.
C10_WarmBeforeNewReturns ==
    /\ passPc["new"] # "done" => (loopPc = "none" /\ mainPc = "asyncForSponsors")
    /\ (mainPc = "asyncForSponsors" /\ passPc["new"] = "done" /\ ~failed)
          => \A k \in Range(prefetchList) :
                keyUpdate[k] # ZeroTime /\ libs[k] \in GoodSnapshots
    /\ \A c \in Callers :
          (/\ Prefetching /\ ~failed /\ ~served /\ ~mlwhClosed
           /\ pc[c] \in {"ForSponsor", "fresh", "store", "return"}
           /\ call[c].sponsor \in Range(prefetchList))
              => /\ pc[c] \notin {"fresh", "store"}
                 /\ ~call[c].fetched
                 /\ call[c].result \in GoodSnapshots
                 /\ call[c].err = Nil

\* the sample names of a snapshot
SnapshotNames(tree) == {x[3] : x \in TreeSamples(tree)}

\* the sample names of registry rows
RowNames(rows) == {rows[i].SampleName : i \in 1 .. Len(rows)}

\* the pass of a tick has queried and stored every configured sponsor
TickPassComplete ==
    /\ passPc["loop"] = "return"
    /\ \A k \in Range(prefetchList) :
          \E i \in 1 .. Len(passLog["loop"]) :
              passLog["loop"][i] = <<"store", k, Nil>>

\* C11: while the Client is not closed and no query fails, a pending tick
\* leads to a completed pass that has fetched and stored every configured
\* sponsor; the snapshot such a pass stores holds only samples that have a
\* row in the registry as the pass found it, and a ForSponsor call made while
\* the loop runs returns the stored snapshot without a query of its own.
C11_TickRefreshShowsRegistry ==
    /\ (tickPending /\ loopPc = "select" /\ ~chClosed /\ ~failed)
          ~> (TickPassComplete \/ chClosed \/ failed)
    /\ [][/\ (passPc["loop"] = "store" /\ passPc'["loop"] # "store")
              => SnapshotNames(libs'[prefetchList[passIdx["loop"]]])
                    \subseteq RowNames(passRes["loop"].rows)
          /\ \A c \in Callers :
                (pc[c] = "ForSponsor" /\ pc'[c] # "ForSponsor" /\ call[c].running)
                    => /\ pc'[c] = "return"
                       /\ call'[c].result = call[c].result
                       /\ ~call'[c].fetched]_vars

\* C12: on a Client constructed with prefetching, once a Close call has
\* returned the loop goroutine eventually exits, whatever it had done when
\* Close ran, and after its exit no pass runs.
C12_CloseStopsLoop ==
    /\ (Prefetching /\ closeReturned)
          ~> (loopPc = "exited" /\ passPc["loop"] = "done")
    /\ [][loopPc = "exited"
            => (loopPc' = "exited" /\ passPc'["loop"] = "done")]_vars

\* C13: once the stop channel is closed the loop starts no pass, also when a
\* tick is pending at that moment; the loop exits only between passes, and a
\* pass under way when the channel is closed goes on to its return.
C13_NoPassAfterStopSignal ==
    [][/\ (chClosed /\ passPc["loop"] = "done") => passPc'["loop"] = "done"
       /\ (loopPc # "exited" /\ loopPc' = "exited") => passPc["loop"] = "done"
       /\ (passPc["loop"] \notin {"done", "return"})
             => passPc'["loop"] # "done"]_vars

\* C14: however often and however concurrently Close is called, no call
\* closes a channel that is already closed (which would panic), and a call
\* that has entered Close can always take its next step and return.
C14_CloseIdempotent ==
    /\ ~panicked
    /\ \A c \in Callers :
          /\ pc[c] = "Close" => ENABLED CloseStop(c)
          /\ pc[c] = "CloseReturn" => ENABLED CloseReturn(c)

\* two overlapping Close calls have both passed their critical section and
\* the channel the loop made is closed
C14_Witness ==
    /\ pc["c1"] = "CloseReturn"
    /\ pc["c2"] = "CloseReturn"
    /\ chClosed
    /\ stopCh = "nil"

\* the time of the most recent storeData call, of any sponsor
LatestStore ==
    CHOOSE t \in {keyUpdate[k] : k \in Sponsors} :
        \A k \in Sponsors : keyUpdate[k] <= t

\* C15: a getData that runs while passes and callers store returns the
\* snapshot and the freshness of one state of the cache: the snapshot is the
\* whole value the last completed storeData of the sponsor wrote (or none),
\* and the flag is computed from the time the last completed storeData set.
C15_ReadSeesOneCacheState ==
    [][\A c \in Callers :
          (pc[c] = "idle" /\ pc'[c] = "ForSponsor")
              => /\ call'[c].result = libs[call'[c].sponsor]
                 /\ call'[c].result \in GoodSnapshots \cup {NoLibs}
                 /\ call'[c].cached = (now < LatestStore + lifetime)]_vars

\* a ForSponsor call has read k1 while a tick's pass, having just stored k1,
\* is under way: it got the new snapshot and the flag of the new time
C15_Witness ==
    /\ pc["c1"] = "ForSponsor"
    /\ call["c1"].sponsor = "k1"
    /\ passPc["loop"] = "fetch"
    /\ passLog["loop"] = <<<<"fetch", "k1", Nil>>, <<"store", "k1", Nil>>>>
    /\ keyUpdate["k1"] = now
    /\ call["c1"].result = libs["k1"]
    /\ call["c1"].cached

\* C16: with a positive lifetime, getData(k) right after storeData(k, snap)
\* returns fresh and exactly snap, and it goes on reporting fresh until the
\* lifetime since that store has passed.
C16_StoreThenGetIsFresh ==
    /\ [](\A k \in Sponsors :
            (lifetime > 0 /\ keyUpdate[k] # ZeroTime /\ now < keyUpdate[k] + lifetime)
                => getData(k).cached)
    /\ [][\A k \in Sponsors :
            /\ \A t \in Passes :
                  (/\ passPc[t] = "store" /\ passPc'[t] # "store"
                   /\ k = prefetchList[passIdx[t]] /\ lifetime > 0)
                      => getData(k)' = [cached |-> TRUE, data |-> passRes[t].libs]
            /\ \A c \in Callers :
                  (/\ pc[c] = "store" /\ pc'[c] # "store"
                   /\ k = call[c].sponsor /\ lifetime > 0)
                      => getData(k)' = [cached |-> TRUE, data |-> call[c].result]]_vars

\* without prefetching, a second ForSponsor call for k1 within the lifetime
\* of the first call's store has got the stored snapshot, reported fresh
C16_Witness ==
    /\ ~Prefetching
    /\ lifetime > 0
    /\ pc["c1"] = "return"
    /\ call["c1"].sponsor = "k1"
    /\ call["c1"].cached
    /\ ~call["c1"].fetched
    /\ call["c1"].result = libs["k1"]
    /\ libs["k1"] \in GoodSnapshots
    /\ keyUpdate["k1"] # ZeroTime

\* what a failed query must look like: the registry is asked first and the
\* spreadsheet only after the registry has answered, and no tree comes back
FailedQueryShape(err, calls, result) ==
    /\ err = ErrMLWH => calls = <<"mlwh">>
    /\ err = ErrSheets => calls = <<"mlwh", "sheets">>
    /\ result = NoLibs

\* C17: a query in which a collaborator fails returns that collaborator's
\* error and no tree, having asked the registry first and the spreadsheet
\* only if the registry succeeded; no step of a pass or of ForSponsor that
\* holds such an error changes a snapshot or the update time, and ForSponsor
\* fetching on demand returns nil and the error without storing.
C17_FailedFetchStoresNothing ==
    /\ [](/\ \A t \in Passes :
              passRes[t].err # Nil =>
                  FailedQueryShape(passRes[t].err, passRes[t].calls,
                                   passRes[t].libs)
          /\ \A c \in Callers :
              call[c].err # Nil =>
                  /\ FailedQueryShape(call[c].err, call[c].calls, call[c].result)
                  /\ pc[c] = "return")
    /\ [][/\ \A t \in Passes :
              ((passRes[t].err # Nil \/ passRes'[t].err # Nil)
                    /\ passPc'[t] # passPc[t])
                  => (libs' = libs /\ lastUpdate' = lastUpdate)
          /\ \A c \in Callers :
              ((call[c].err # Nil \/ call'[c].err # Nil) /\ pc'[c] # pc[c])
                  => (libs' = libs /\ lastUpdate' = lastUpdate)]_vars

\* without prefetching, a ForSponsor call for k1 whose spreadsheet query
\* failed after the registry answered is returning nil and the error, and
\* the snapshot an earlier call stored is still in the store
C17_Witness ==
    /\ ~Prefetching
    /\ pc["c1"] = "return"
    /\ call["c1"].sponsor = "k1"
    /\ call["c1"].err = ErrSheets
    /\ call["c1"].calls = <<"mlwh", "sheets">>
    /\ call["c1"].result = NoLibs
    /\ libs["k1"] \in GoodSnapshots
    /\ lastUpdate = keyUpdate["k1"]

\* a pass has queried every configured sponsor with success
PassAllSucceeded(t) ==
    /\ passPc[t] = "return"
    /\ \A k \in Range(prefetchList) :
          \E i \in 1 .. Len(passLog[t]) : passLog[t][i] = <<"fetch", k, Nil>>

C20_LastSuccessIsOfPrefetchOnly ==
    /\ [](~Prefetching => LastPrefetchSuccess = ZeroTime)
    /\ [][/\ \A t \in Passes :
              (passPc[t] = "store" /\ passPc'[t] # "store")
                  => LastPrefetchSuccess' = now
          /\ LastPrefetchSuccess' # LastPrefetchSuccess
                => \E t \in Passes :
                      passPc[t] = "store" /\ passPc'[t] # "store"]_vars


(***************************************************************************)
(* Claims about Libraries.Subset.                                          *)
(***************************************************************************)
\* the Subset call has returned
Subsetted == sPc = "returned" /\ sIn.tree # << >>

\* the entry has both its sample identity and its run identity
HasBothIds(sample) == sample.SampleID # "" /\ sample.RunID # ""

\* the entries of desired that have both identities, in order
ValidEntries(desired) == SelectSeq(desired, HasBothIds)

\* C21: Subset returns ErrNoSamplesRequested iff no entry of desired has
\* both its sample identity and its run identity; an entry missing either
\* is ignored: the error returned is the one returned for desired without
\* such entries.
C21_NoSamplesRequestedIffNoValidEntry ==
    Subsetted =>
        /\ (sOut.err = ErrNoSamplesRequested
              <=> ~\E i \in 1 .. Len(sIn.desired) : HasBothIds(sIn.desired[i]))
        /\ sOut.err = Subset(sIn.tree, sHeap, ValidEntries(sIn.desired)).err

\* Subset has returned ErrNoSamplesRequested for a desired list of two
\* entries, one without a sample identity and one without a run identity
C21_Witness ==
    /\ Subsetted
    /\ Len(sIn.desired) = 2
    /\ sIn.desired[1].SampleID = "" /\ sIn.desired[1].RunID # ""
    /\ sIn.desired[2].SampleID # "" /\ sIn.desired[2].RunID = ""
    /\ sOut.err = ErrNoSamplesRequested

\* the keys of the entries of desired that have both identities
ValidKeys(desired) == {Key(desired[i]) : i \in {j \in 1 .. Len(desired) : HasBothIds(desired[j])}}

\* the n-th Experiment of the tree, Libraries in order and each Library's
\* Experiments in order, and its Library
LibraryAt(tree, n) == tree[ExperimentOrder(tree)[n][1]]
ExperimentAt(tree, n) ==
    LibraryAt(tree, n).Experiments[ExperimentOrder(tree)[n][2]]

\* the positions in the Experiment's list of the Samples with a key in keys
Matches(exp, keys) ==
    {i \in 1 .. Len(exp.Samples) : Key(sHeap[exp.Samples[i]]) \in keys}

\* the Experiments of the tree with a Sample whose key is in keys
Matching(tree, keys) ==
    {n \in 1 .. Len(ExperimentOrder(tree)) :
        Matches(ExperimentAt(tree, n), keys) # {}}

\* the first of them
FirstMatching(tree, keys) ==
    CHOOSE n \in Matching(tree, keys) : \A m \in Matching(tree, keys) : n <= m

\* C22: when the first Experiment with a Sample of a desired key has fewer
\* such Samples than there are desired keys, Subset returns
\* ErrNotAllSamplesInSameExperiment, whatever the later Experiments hold;
\* when it has exactly one Sample for each desired key Subset returns that
\* Experiment of that Library, so Experiments before it without a desired
\* Sample are passed over.
C22_FirstMatchingExperimentDecides ==
    [][(sPc = "call" /\ sPc' = "returned"
            /\ Matching(sIn.tree, ValidKeys(sIn.desired)) # {}) =>
        LET keys == ValidKeys(sIn.desired)
            n == FirstMatching(sIn.tree, keys)
            found == Cardinality(Matches(ExperimentAt(sIn.tree, n), keys))
        IN /\ found < Cardinality(keys)
                => sOut'.err = ErrNotAllSamplesInSameExperiment
           /\ found = Cardinality(keys)
                => /\ sOut'.err = Nil
                   /\ sOut'.lib.LibraryID = LibraryAt(sIn.tree, n).LibraryID
                   /\ sOut'.lib.Experiments[1].ExperimentID =
                         ExperimentAt(sIn.tree, n).ExperimentID]_vars

\* Subset has returned ErrNotAllSamplesInSameExperiment for two desired
\* keys: the first Experiment holds no Sample, the second holds a Sample of
\* one desired key only, and the third holds Samples of both
C22_Witness ==
    /\ Subsetted
    /\ Cardinality(ValidKeys(sIn.desired)) = 2
    /\ Matches(ExperimentAt(sIn.tree, 1), ValidKeys(sIn.desired)) = {}
    /\ Cardinality(Matches(ExperimentAt(sIn.tree, 2), ValidKeys(sIn.desired))) = 1
    /\ Cardinality(Matches(ExperimentAt(sIn.tree, 3), ValidKeys(sIn.desired))) = 2
    /\ sOut.err = ErrNotAllSamplesInSameExperiment

\* C23: Subset returns ErrSamplesNotFound iff desired has an entry with
\* both identities and no Sample of any Experiment of any Library has the
\* key of such an entry.
C23_NotFoundIffNoSampleHasDesiredKey ==
    Subsetted =>
        (sOut.err = ErrSamplesNotFound
            <=> (/\ ValidKeys(sIn.desired) # {}
                 /\ Matching(sIn.tree, ValidKeys(sIn.desired)) = {}))

\* Subset has returned ErrSamplesNotFound: the tree holds Samples in two
\* Experiments and none of them has the one desired key
C23_Witness ==
    /\ Subsetted
    /\ Cardinality(ValidKeys(sIn.desired)) = 1
    /\ Len(ExperimentAt(sIn.tree, 1).Samples) > 0
    /\ Len(ExperimentAt(sIn.tree, 3).Samples) > 0
    /\ Matching(sIn.tree, ValidKeys(sIn.desired)) = {}
    /\ sOut.err = ErrSamplesNotFound

\* the (sample identity, run identity) of a Sample
Identity(sample) == <<sample.SampleID, sample.RunID>>

\* the identities of the Samples of an Experiment
ExperimentIdentities(exp) ==
    {Identity(sHeap[exp.Samples[i]]) : i \in 1 .. Len(exp.Samples)}

\* no two Samples of the tree have the same identity
IdentitiesUnique(tree) ==
    \A m, n \in 1 .. Len(ExperimentOrder(tree)) :
        \A i \in 1 .. Len(ExperimentAt(tree, m).Samples),
           j \in 1 .. Len(ExperimentAt(tree, n).Samples) :
            Identity(sHeap[ExperimentAt(tree, m).Samples[i]])
                    = Identity(sHeap[ExperimentAt(tree, n).Samples[j]])
                => (m = n /\ i = j)

\* desired is exactly the Samples of the Experiment, each with both
\* identities
IsFullSampleSet(desired, exp) ==
    /\ Len(exp.Samples) > 0
    /\ \A i \in 1 .. Len(desired) : HasBothIds(desired[i])
    /\ {Identity(desired[i]) : i \in 1 .. Len(desired)} = ExperimentIdentities(exp)

\* the Library is the n-th Experiment's Library cut down to that Experiment
\* with the given Samples
IsCutDownTo(lib, tree, n, samples) ==
    /\ lib # NilLibrary
    /\ lib.LibraryID = LibraryAt(tree, n).LibraryID
    /\ lib.StudyID = LibraryAt(tree, n).StudyID
    /\ Len(lib.Experiments) = 1
    /\ lib.Experiments[1].ExperimentID = ExperimentAt(tree, n).ExperimentID
    /\ lib.Experiments[1].Samples = samples

\* C24: when Subset succeeds the Library it returns has the fields of an
\* original Library and one Experiment, with the fields of an original
\* Experiment of that Library and exactly that Experiment's Samples of a
\* desired key, in the Experiment's order; and when desired is exactly the
\* Samples of one Experiment, in a tree whose Samples all differ in
\* identity, Subset succeeds with that Experiment's whole Sample list.
C24_SuccessIsTheExperimentCutDown ==
    [][(sPc = "call" /\ sPc' = "returned") =>
        /\ (sOut'.err = Nil) =>
              (\E n \in 1 .. Len(ExperimentOrder(sIn.tree)) :
                  IsCutDownTo(sOut'.lib, sIn.tree, n,
                      SelectSeq(ExperimentAt(sIn.tree, n).Samples,
                          LAMBDA a : Key(sHeap[a]) \in ValidKeys(sIn.desired))))
        /\ \A n \in 1 .. Len(ExperimentOrder(sIn.tree)) :
              (/\ IdentitiesUnique(sIn.tree)
               /\ IsFullSampleSet(sIn.desired, ExperimentAt(sIn.tree, n)))
                  => /\ sOut'.err = Nil
                     /\ IsCutDownTo(sOut'.lib, sIn.tree, n,
                                    ExperimentAt(sIn.tree, n).Samples)]_vars

\* the tree as its holder sees it: every Library and Experiment with the
\* Sample structs its slices point to
Dereferenced(tree, heap) ==
    [i \in 1 .. Len(tree) |->
        [tree[i] EXCEPT !.Experiments =
            [j \in 1 .. Len(tree[i].Experiments) |->
                [tree[i].Experiments[j] EXCEPT !.Samples =
                    [k \in 1 .. Len(tree[i].Experiments[j].Samples) |->
                        heap[tree[i].Experiments[j].Samples[k]]]]]]]

\* C25: after Subset has returned, no assignment through the returned
\* Library, to its fields, to its Experiment, to the Experiment's slice or
\* to a Sample of it, changes the tree Subset selected from.
C25_ResultSharesNothingWithSource ==
    [][sPc = "returned" =>
        Dereferenced(sIn.tree, sHeap)' = Dereferenced(sIn.tree, sHeap)]_vars

ValidIdentities(desired) ==
    {Identity(desired[i]) : i \in {j \in 1 .. Len(desired) : HasBothIds(desired[j])}}

\* C27: what Subset returns depends only on the set of (sample identity,
\* run identity) of the entries of desired that have both: every other
\* desired list with the same set, so every permutation of desired and
\* every list repeating an entry of it, gives the same Library and the same
\* error.
C27_ResultDependsOnValidIdentitySet ==
    [][(sPc = "call" /\ sPc' = "returned") =>
        \A d \in DesiredLists :
            ValidIdentities(d) = ValidIdentities(sIn.desired)
                => Subset(sIn.tree, sHeap, d) = sOut']_vars

\* Subset has returned a Library for a desired list that names the same
\* Sample twice
C27_Witness ==
    /\ Subsetted
    /\ Len(sIn.desired) = 2
    /\ HasBothIds(sIn.desired[1])
    /\ sIn.desired[2] = sIn.desired[1]
    /\ sOut.err = Nil
    /\ Len(sOut.lib.Experiments) = 1

(***************************************************************************)
(* Claims about the store and the modes of the Client.                     *)
(***************************************************************************)
\* C28: the storeData of a pass and the storeData of a ForSponsor call make
\* the entry of their sponsor exactly the tree just fetched and leave the
\* entry of every other sponsor as it was; no other step changes an entry.
C28_StoreReplacesOneEntry ==
    [][/\ \A t \in Passes :
            (passPc[t] = "store" /\ passPc'[t] # "store") =>
                libs' = [k \in Sponsors |->
                            IF k = prefetchList[passIdx[t]]
                            THEN passRes[t].libs ELSE libs[k]]
       /\ \A c \in Callers :
            (pc[c] = "store" /\ pc'[c] # "store") =>
                libs' = [k \in Sponsors |->
                            IF k = call[c].sponsor
                            THEN call[c].result ELSE libs[k]]
       /\ ((\A t \in Passes : passPc[t] # "store")
                /\ (\A c \in Callers : pc[c] # "store")) => libs' = libs]_vars

\* the loop's pass has just stored a tree for k1 that differs from k2's,
\* k2's entry being the one stored for it earlier
C28_Witness ==
    /\ passPc["loop"] \in {"fetch", "return"}
    /\ Len(passLog["loop"]) > 0
    /\ passLog["loop"][Len(passLog["loop"])] = <<"store", "k1", Nil>>
    /\ libs["k1"] = passRes["loop"].libs
    /\ libs["k1"] # NoLibs
    /\ libs["k2"] # NoLibs
    /\ libs["k2"] # libs["k1"]
    /\ keyUpdate["k2"] # ZeroTime
    /\ keyUpdate["k2"] < keyUpdate["k1"]

\* C29: with an empty Prefetch list or a CacheLifetime of zero or less, New
\* starts no pass and no loop and no stop channel is ever made, so a
\* ForSponsor call that was told `not cached' fetches; and with a
\* CacheLifetime of zero or less getData reports no sponsor as cached,
\* every ForSponsor call goes on to fetch, and none returns without having
\* fetched.
C29_NoPrefetchStaysOnDemand ==
    /\ [](~Prefetching =>
            /\ \A t \in Passes : passPc[t] = "done" /\ passLog[t] = << >>
            /\ loopPc = "none"
            /\ stopCh = "nil"
            /\ mainPc = "New" => \A k \in Sponsors : libs[k] = NoLibs)
    /\ [](lifetime <= 0 =>
            /\ \A k \in Sponsors : ~getData(k).cached
            /\ \A c \in Callers : pc[c] = "return" => call[c].fetched)
    /\ [][\A c \in Callers :
            (~Prefetching /\ pc[c] = "ForSponsor" /\ pc'[c] # pc[c]) =>
                /\ ~call[c].cached => pc'[c] = "fresh"
                /\ lifetime <= 0 => pc'[c] = "fresh"]_vars

\* with a Prefetch list and a CacheLifetime of zero or less, a ForSponsor
\* call for k1 is about to fetch although a tree was stored for k1 at this
\* very time
C29_Witness ==
    /\ lifetime <= 0
    /\ Len(prefetchList) > 0
    /\ pc["c1"] = "fresh"
    /\ call["c1"].sponsor = "k1"
    /\ libs["k1"] # NoLibs
    /\ keyUpdate["k1"] = now
    /\ loopPc = "none"

\* C30: with prefetching configured no ForSponsor call returns an error,
\* whatever the background queries did; a call returning while nothing has
\* ever been stored returns the empty Libraries.
C30_PrefetchModeReturnsNoError ==
    \A c \in Callers :
        (Prefetching /\ pc[c] = "return") =>
            /\ call[c].err = Nil
            /\ (\A k \in Sponsors : keyUpdate[k] = ZeroTime)
                    => call[c].result = NoLibs

Present(dir, name) == dir.isDir /\ name \in dir.names

\* how many of the Sample's two fastq files are present
FastqsPresent(dir, sample) ==
    Cardinality({suffix \in {FastqPair1Suffix, FastqPair2Suffix} :
                    Present(dir, FastqPath(sample, suffix))})

\* the Library has a study and exactly one Experiment
HasStudyAndOneExperiment(lib) ==
    lib # NilLibrary /\ lib.StudyID # "" /\ Len(lib.Experiments) = 1

\* the Samples of the list, each identity once, at its first place
UniqueSamples(samples) ==
    LET firsts == {i \in 1 .. Len(samples) :
                      \A j \in 1 .. (i - 1) :
                          Identity(samples[j]) # Identity(samples[i])}
    IN [n \in 1 .. Cardinality(firsts) |-> ITLSample(samples[SeqOfSet(firsts)[n]])]

\* those of them with none of their fastq files present
WithoutFastqs(dir, samples) ==
    SelectSeq(samples, LAMBDA x : FastqsPresent(dir, x) = 0)

\* C32: itl.New returns an error and no ITL unless the Library has a study
\* and exactly one Experiment; when it has, New returns ErrMissingFastqFile
\* and no ITL if exactly one of the two fastq files of some Sample is
\* present, and otherwise an ITL whose Samples are the Experiment's Samples,
\* each once and in their order, without those whose two fastq files are
\* both present.
C32_NewKeepsSamplesWithoutFastqs ==
    [][(iPc = "call" /\ iPc' = "returned") =>
        /\ ~HasStudyAndOneExperiment(iIn.lib) =>
                (iOut'.err # Nil /\ iOut'.itl = NilITL)
        /\ HasStudyAndOneExperiment(iIn.lib) =>
              IF \E i \in 1 .. Len(iIn.lib.Experiments[1].Samples) :
                    FastqsPresent(iIn.dir, iIn.lib.Experiments[1].Samples[i]) = 1
              THEN iOut'.err = ErrMissingFastqFile /\ iOut'.itl = NilITL
              ELSE /\ iOut'.err = Nil
                   /\ iOut'.itl.studyID = iIn.lib.StudyID
                   /\ iOut'.itl.samples =
                        WithoutFastqs(iIn.dir,
                            UniqueSamples(iIn.lib.Experiments[1].Samples))]_vars

\* the source and the destination of the pair CopyFastqFiles is at
SrcAt(at) == IF at = "pair1" THEN "src1" ELSE "src2"
DstAt(at) == IF at = "pair1" THEN "dst1" ELSE "dst2"

\* C33: for each pair CopyFastqFiles moves: if the destination exists with
\* the size of the source, no file is changed and there is no error; if it
\* exists with another size, ErrFastqExistsDiffSize is returned and no file
\* is changed; if it does not exist, afterwards the destination is what the
\* source was and the source does not exist.
C33_MoveFileLeavesSameSizeAlone ==
    [][(mPc \in {"pair1", "pair2"} /\ mPc' # mPc
            /\ files[SrcAt(mPc)] # NoFile) =>
        LET src == SrcAt(mPc)
            dst == DstAt(mPc)
        IN /\ (files[dst] # NoFile /\ files[dst].size = files[src].size)
                => (files' = files /\ mOut' = Nil)
           /\ (files[dst] # NoFile /\ files[dst].size # files[src].size)
                => (files' = files /\ mOut' = ErrFastqExistsDiffSize)
           /\ files[dst] = NoFile
                => /\ files' = [files EXCEPT ![dst] = files[src],
                                             ![src] = NoFile]
                   /\ mOut' = Nil]_vars

(***************************************************************************)
(* More claims about Sample.Key and Libraries.Subset.                      *)
(***************************************************************************)
\* C34: Samples that differ in SampleID or in RunID have different keys:
\* the desired entries with both identities have as many keys as
\* identities, no Sample of the tree has the key of a desired entry of
\* another identity, and every Sample of a Library that Subset returns has
\* the identity of a desired entry.
C34_KeyInjectiveOnIdentities ==
    [][(sPc = "call" /\ sPc' = "returned") =>
        /\ Cardinality(ValidKeys(sIn.desired))
                = Cardinality(ValidIdentities(sIn.desired))
        /\ \A n \in 1 .. Len(ExperimentOrder(sIn.tree)) :
                ExperimentIdentities(
                    ExperimentClone(ExperimentAt(sIn.tree, n),
                        SelectSeq(ExperimentAt(sIn.tree, n).Samples,
                            LAMBDA a : Key(sHeap[a]) \in ValidKeys(sIn.desired))))
                    \subseteq ValidIdentities(sIn.desired)
        /\ sOut'.err = Nil =>
                \A i \in 1 .. Len(sOut'.lib.Experiments[1].Samples) :
                    Identity(sHeap[sOut'.lib.Experiments[1].Samples[i]])
                        \in ValidIdentities(sIn.desired)]_vars

\* the keys of the Samples of an Experiment
ExperimentKeys(exp) ==
    {Key(sHeap[exp.Samples[i]]) : i \in 1 .. Len(exp.Samples)}

\* C35: when every desired key occurs in the first Experiment that has a
\* Sample of a desired key, Subset succeeds and returns exactly one Sample
\* for each desired key, also when that Experiment has several Samples
\* with the same key.
C35_AllKeysInFirstMatchSucceeds ==
    [][(/\ sPc = "call" /\ sPc' = "returned"
        /\ Matching(sIn.tree, ValidKeys(sIn.desired)) # {}
        /\ ValidKeys(sIn.desired) \subseteq
              ExperimentKeys(ExperimentAt(sIn.tree,
                  FirstMatching(sIn.tree, ValidKeys(sIn.desired))))) =>
        /\ sOut'.err = Nil
        /\ Len(sOut'.lib.Experiments) = 1
        /\ \A key \in ValidKeys(sIn.desired) :
              Cardinality({i \in 1 .. Len(sOut'.lib.Experiments[1].Samples) :
                  Key(sHeap[sOut'.lib.Experiments[1].Samples[i]]) = key}) = 1
        /\ Len(sOut'.lib.Experiments[1].Samples)
              = Cardinality(ValidKeys(sIn.desired))]_vars

(***************************************************************************)
(* More claims about the Client.                                           *)
(***************************************************************************)
\* C36: once a Close call has returned on a Client made with prefetching,
\* c.stopCh is nil, and a ForSponsor call then made that was told `not
\* cached' goes on to fetch, with the registry handle closed, and after a
\* successful fetch to storeData.
C36_AfterCloseOnDemand ==
    /\ []((Prefetching /\ closeReturned) => (stopCh = "nil" /\ mlwhClosed))
    /\ [][\A c \in Callers :
            (Prefetching /\ closeReturned) =>
                /\ (pc[c] = "ForSponsor" /\ pc'[c] # pc[c] /\ ~call[c].cached)
                      => pc'[c] = "fresh"
                /\ (pc[c] = "fresh" /\ pc'[c] # pc[c] /\ call'[c].err = Nil)
                      => pc'[c] = "store"
                /\ (pc[c] = "store" /\ pc'[c] # pc[c])
                      => libs'[call[c].sponsor] = call[c].result]_vars


\* pass t is between the assignment of c.err after a successful query and
\* the query of the next sponsor
BetweenFetches(t) ==
    \/ passPc[t] = "store"
    \/ passPc[t] = "fetch" /\ passIdx[t] > 1

\* C37: c.err is assigned after the query of each sponsor of a pass, nil
\* when the query succeeded, so from that assignment to the next sponsor's
\* query Err() is nil, whatever the earlier queries of the later sponsors
\* returned.
C37_ErrNilBetweenFetches ==
    /\ [](\A t \in Passes : BetweenFetches(t) => Err = Nil)
    /\ [][\A t \in Passes :
            (passPc[t] = "record" /\ passPc'[t] = "store")
                => (passRes[t].err = Nil /\ Err' = Nil /\ Err' = passRes[t].err)]_vars

\* sponsors [k1, k2], no ForSponsor call made: New's pass stored k1 and
\* k2 has never been stored, so its query failed; the tick's pass has
\* queried k1 with success and not yet k2, and Err() is nil
C37_Witness ==
    /\ prefetchList = <<"k1", "k2">>
    /\ ~served
    /\ \A c \in Callers : pc[c] = "idle"
    /\ failed
    /\ keyUpdate["k1"] # ZeroTime
    /\ keyUpdate["k2"] = ZeroTime
    /\ passPc["loop"] = "store"
    /\ passIdx["loop"] = 1
    /\ passLog["loop"] = <<<<"fetch", "k1", Nil>>>>
    /\ Err = Nil

\* C38: without prefetching, a ForSponsor call that was told `not cached'
\* makes its own query whatever the other callers are doing, and stores its
\* own result when the query succeeds; each storeData leaves the storing
\* caller's snapshot in the store, and no step of another goroutine changes
\* the snapshot a caller has fetched and returns.
C38_NoSingleFlight ==
    [][\A c \in Callers :
          /\ (pc[c] = "ForSponsor" /\ pc'[c] # pc[c] /\ ~call[c].cached)
                => pc'[c] = "fresh"
          /\ (pc[c] = "fresh" /\ pc'[c] # pc[c])
                => /\ call'[c].fetched
                   /\ pc'[c] = (IF call'[c].err = Nil THEN "store" ELSE "return")
          /\ (pc[c] = "store" /\ pc'[c] # pc[c])
                => /\ pc'[c] = "return"
                   /\ libs' = [libs EXCEPT ![call[c].sponsor] = call[c].result]
          /\ (pc[c] \in {"store", "return"} /\ pc'[c] # "idle")
                => call'[c] = call[c]
          /\ (pc[c] \notin {"store"} /\ pc'[c] = pc[c]
                    /\ \A d \in Callers : pc[d] # "store")
                => libs' = libs]_vars

\* two calls for k1 that both queried with success are returning: c1
\* returns the snapshot it fetched, and the store holds the different
\* snapshot of c2, whose storeData ran last
C38_Witness ==
    /\ ~Prefetching
    /\ \A c \in Callers :
          /\ pc[c] = "return"
          /\ call[c].sponsor = "k1"
          /\ call[c].fetched
          /\ call[c].err = Nil
    /\ call["c1"].result # call["c2"].result
    /\ libs["k1"] = call["c2"].result
====
